---- MODULE Spec2Model ----
(***************************************************************************)
(* Model of the job dispatch core of node-siap-bridge (src/queue.js):      *)
(* SiapDequeue (the dispatcher), SiapQueue (the queue item) and the        *)
(* sequential runner `Queue` of @ntlab/work that the dispatcher drives.    *)
(* The Field Resolver of SiapQueue (getMappedData, getDataValue) is        *)
(* modelled on strings as sequences of characters.                         *)
(*                                                                         *)
(* Items are identified by their index in the history `queues`.            *)
(* The consumer is external: every answer it gives (canProcessQueue,       *)
(* canHandleNextQueue, a synchronous throw, the settlement of a promise)   *)
(* is a nondeterministic input of the action in which it is asked.         *)
(***************************************************************************)
EXTENDS Integers, Sequences, FiniteSets, TLC

VARIABLES
    queues,     \* SiapDequeue.queues: the history, a sequence of item records
    pending,    \* SiapDequeue.queue.queues: the runner's list (item indices)
    scheduled,  \* SiapDequeue.queue.queue while its handler has not run yet (0: none)
    last,       \* SiapDequeue.last (0: unset)
    consumer,   \* SiapDequeue.consumer is set
    loops,      \* number of polling loops installed by setConsumer
    ready,      \* the answer of canProcess() at the most recent Queue.next()
    timeline,   \* items in the order of their latest start() (their `time`)
    now,        \* new Date().getTime(): the clock, in milliseconds
    dequeue,    \* the module's `dequeue` singleton has been created
    resolver    \* a Field Resolver call on an item: its input and its value

vars == <<queues, pending, scheduled, last, consumer, loops, ready, timeline,
          now, dequeue, resolver>>

(***************************************************************************)
(* Bounds of the model.                                                    *)
(***************************************************************************)
MaxItems == 2
MaxBurstItems == 3
MaxFailItems == 2
MaxRetryItems == 1
MaxHookItems == 2
MaxLoops == 2
MaxClock == 2
MaxErrorItems == 2
MaxTimeoutItems == 2

(***************************************************************************)
(* Program constants.                                                      *)
(***************************************************************************)
Timeout == 600000
Retry == 3

QUEUE_SPP == "spp"
QUEUE_CALLBACK == "callback"
QUEUE_CAPTCHA == "captcha"
QUEUE_NOOP == "noop"

STATUS_NEW == "new"
STATUS_PROCESSING == "processing"
STATUS_DONE == "done"
STATUS_ERROR == "error"
STATUS_TIMED_OUT == "timeout"
STATUS_SKIPPED == "skipped"

\* No Field Resolver call has been made.
NoCall ==
    [made |-> FALSE, call |-> "", hasMaps |-> FALSE, name |-> <<>>, vtype |-> <<>>,
     first |-> <<>>, refs |-> <<>>, key |-> <<>>, value |-> <<>>]

(***************************************************************************)
(* Values a consumer call can produce.                                     *)
(***************************************************************************)
SiapRetryError == "SiapRetryError"
OtherError == "Error"
HookError == "HookError"
Result == "result"
Undefined == "undefined"

\* An id that !queue.id reads as absent.
NoId == ""

\* What the consumer and the listeners do during one run of doit():
\* ready is canProcessQueue(); handle is canHandleNextQueue(); fault names
\* the call that throws synchronously, if any.
Faults == {"none", "listener", "processQueue", "canHandleNextQueue"}
Answers ==
    [ready : BOOLEAN, handle : {FALSE}, fault : Faults]
        \cup [ready : BOOLEAN, handle : {TRUE}, fault : {"none"}]
Faultless == [ready : BOOLEAN, handle : BOOLEAN, fault : {"none"}]
Quiet == [ready : BOOLEAN, handle : {FALSE}, fault : {"none"}]

(***************************************************************************)
(* The items callers submit: what SiapQueue.create() and the caller set    *)
(* before add().  hasTimeout = FALSE is data.timeout === undefined.        *)
(***************************************************************************)
Kinds ==
    { [type |-> QUEUE_SPP, hasTimeout |-> TRUE, timeout |-> 200, retry |-> FALSE,
       onretry |-> FALSE, ontimeout |-> FALSE, cont |-> TRUE,
       id |-> NoId, info |-> Undefined],
      [type |-> QUEUE_NOOP, hasTimeout |-> TRUE, timeout |-> 0, retry |-> FALSE,
       onretry |-> FALSE, ontimeout |-> FALSE, cont |-> FALSE,
       id |-> NoId, info |-> Undefined],
      [type |-> QUEUE_CALLBACK, hasTimeout |-> FALSE, timeout |-> 0, retry |-> FALSE,
       onretry |-> FALSE, ontimeout |-> FALSE, cont |-> FALSE,
       id |-> NoId, info |-> Undefined] }

\* The items of the failure scenarios: one that is retried, one that is not,
\* both with data.timeout = 0 (the poll loop never times them out).
FailKinds ==
    { [type |-> QUEUE_SPP, hasTimeout |-> TRUE, timeout |-> 0, retry |-> TRUE,
       onretry |-> FALSE, ontimeout |-> FALSE, cont |-> TRUE,
       id |-> NoId, info |-> Undefined],
      [type |-> QUEUE_NOOP, hasTimeout |-> TRUE, timeout |-> 0, retry |-> FALSE,
       onretry |-> FALSE, ontimeout |-> FALSE, cont |-> FALSE,
       id |-> NoId, info |-> Undefined] }

\* The items of the id scenarios: one without an id, one whose caller set it.
IdKinds ==
    { [type |-> QUEUE_SPP, hasTimeout |-> TRUE, timeout |-> 200, retry |-> FALSE,
       onretry |-> FALSE, ontimeout |-> FALSE, cont |-> TRUE,
       id |-> NoId, info |-> Undefined],
      [type |-> QUEUE_NOOP, hasTimeout |-> TRUE, timeout |-> 0, retry |-> FALSE,
       onretry |-> FALSE, ontimeout |-> FALSE, cont |-> FALSE,
       id |-> "job-1", info |-> Undefined] }

\* The items of the duplicate-submission scenarios: they differ in type and info.
InfoKinds ==
    { [type |-> QUEUE_SPP, hasTimeout |-> TRUE, timeout |-> 200, retry |-> FALSE,
       onretry |-> FALSE, ontimeout |-> FALSE, cont |-> TRUE,
       id |-> NoId, info |-> "a"],
      [type |-> QUEUE_SPP, hasTimeout |-> TRUE, timeout |-> 0, retry |-> FALSE,
       onretry |-> FALSE, ontimeout |-> FALSE, cont |-> TRUE,
       id |-> NoId, info |-> "b"],
      [type |-> QUEUE_NOOP, hasTimeout |-> TRUE, timeout |-> 0, retry |-> FALSE,
       onretry |-> FALSE, ontimeout |-> FALSE, cont |-> FALSE,
       id |-> NoId, info |-> Undefined] }

\* The candidates hasPendingQueue is asked about: a type and an info.
Candidates == [type : {QUEUE_SPP, QUEUE_NOOP}, info : {"a", "b", Undefined}]

\* The items of the timeout hook scenarios: one with an ontimeout hook, one plain.
HookKinds ==
    { [type |-> QUEUE_CAPTCHA, hasTimeout |-> TRUE, timeout |-> 200, retry |-> FALSE,
       onretry |-> FALSE, ontimeout |-> TRUE, cont |-> FALSE,
       id |-> NoId, info |-> Undefined],
      [type |-> QUEUE_NOOP, hasTimeout |-> TRUE, timeout |-> 0, retry |-> FALSE,
       onretry |-> FALSE, ontimeout |-> FALSE, cont |-> FALSE,
       id |-> NoId, info |-> Undefined] }

\* The items of the fault scenarios: one with a timeout, one without.
FaultKinds ==
    { [type |-> QUEUE_SPP, hasTimeout |-> TRUE, timeout |-> 200, retry |-> FALSE,
       onretry |-> FALSE, ontimeout |-> FALSE, cont |-> TRUE,
       id |-> NoId, info |-> Undefined],
      [type |-> QUEUE_NOOP, hasTimeout |-> TRUE, timeout |-> 0, retry |-> FALSE,
       onretry |-> FALSE, ontimeout |-> FALSE, cont |-> FALSE,
       id |-> NoId, info |-> Undefined] }

\* The consumer is ready, approves nothing more and throws nothing.
Ready == [ready |-> TRUE, handle |-> FALSE, fault |-> "none"]

\* The items of the retry and hook scenarios.
RetryKinds ==
    { [type |-> QUEUE_SPP, hasTimeout |-> TRUE, timeout |-> 200, retry |-> TRUE,
       onretry |-> FALSE, ontimeout |-> FALSE, cont |-> TRUE,
       id |-> NoId, info |-> Undefined],
      [type |-> QUEUE_CAPTCHA, hasTimeout |-> FALSE, timeout |-> 0, retry |-> TRUE,
       onretry |-> TRUE, ontimeout |-> TRUE, cont |-> FALSE,
       id |-> NoId, info |-> Undefined],
      [type |-> QUEUE_NOOP, hasTimeout |-> TRUE, timeout |-> 0, retry |-> FALSE,
       onretry |-> FALSE, ontimeout |-> FALSE, cont |-> FALSE,
       id |-> NoId, info |-> Undefined] }

\* The items of the error scenarios: one that is retried through an onretry
\* hook and has continuations, and a callback item that is not retried and
\* has none.
ErrorKinds ==
    { [type |-> QUEUE_SPP, hasTimeout |-> TRUE, timeout |-> 0, retry |-> TRUE,
       onretry |-> TRUE, ontimeout |-> FALSE, cont |-> TRUE,
       id |-> NoId, info |-> Undefined],
      [type |-> QUEUE_CALLBACK, hasTimeout |-> FALSE, timeout |-> 0, retry |-> FALSE,
       onretry |-> FALSE, ontimeout |-> FALSE, cont |-> FALSE,
       id |-> NoId, info |-> Undefined] }

\* The items of the timeout scenarios: one without data.timeout (the default
\* applies), one with data.timeout = 0.
TimeoutKinds ==
    { [type |-> QUEUE_SPP, hasTimeout |-> FALSE, timeout |-> 0, retry |-> FALSE,
       onretry |-> FALSE, ontimeout |-> FALSE, cont |-> TRUE,
       id |-> NoId, info |-> Undefined],
      [type |-> QUEUE_NOOP, hasTimeout |-> TRUE, timeout |-> 0, retry |-> FALSE,
       onretry |-> FALSE, ontimeout |-> FALSE, cont |-> FALSE,
       id |-> NoId, info |-> Undefined] }

\* new SiapQueue() + create(): status NEW, nothing recorded yet.
\* retryCount 0 stands for undefined (the code reads undefined as 0).
\* over: `now - time > effective timeout`, the only thing the code asks of the clock.
\* inflight: the pending promise of the item's dispatch chain.
\* hooks: pending ontimeout() promises.  attempts/ev*/n*: calls and events so far.
\* behind: for a CALLBACK item, the non-callback items in the runner's list at add().
\* ownId: the caller set an id before add().
\* approved: consumer.canHandleNextQueue(item) has returned true since the
\* item was added or last started.
\* faulted: the item's dispatch threw synchronously after start() and no
\* promise of the item has settled since.
create(k) ==
    [type |-> k.type, hasTimeout |-> k.hasTimeout, timeout |-> k.timeout,
     retry |-> k.retry, onretry |-> k.onretry, ontimeout |-> k.ontimeout,
     cont |-> k.cont, id |-> k.id, info |-> k.info, ownId |-> k.id # NoId,
     status |-> STATUS_NEW, result |-> Undefined, retryCount |-> 0,
     over |-> FALSE, inflight |-> "none", hooks |-> 0,
     attempts |-> 0, evStart |-> 0, evDone |-> 0, evError |-> 0,
     nResolve |-> 0, nReject |-> 0, behind |-> {}, approved |-> FALSE,
     faulted |-> FALSE]

(***************************************************************************)
(* SiapQueue methods.                                                      *)
(***************************************************************************)
setStatus(q, status) ==
    IF q.status # status THEN [q EXCEPT !.status = status] ELSE q

setResult(q, result) ==
    IF q.result # result THEN [q EXCEPT !.result = result] ELSE q

start(q) == setStatus([q EXCEPT !.over = FALSE], STATUS_PROCESSING)

done(q, result) == setResult(setStatus(q, STATUS_DONE), result)

error(q, err) == setResult(setStatus(q, STATUS_ERROR), err)

finished(q) ==
    q.status \in {STATUS_DONE, STATUS_ERROR, STATUS_TIMED_OUT, STATUS_SKIPPED}

(***************************************************************************)
(* The dispatcher state as one record, so that the code's functions are    *)
(* operators from state to state.                                          *)
(***************************************************************************)
State ==
    [queues |-> queues, pending |-> pending, scheduled |-> scheduled,
     last |-> last, consumer |-> consumer, ready |-> ready,
     timeline |-> timeline]

Install(st) ==
    /\ queues' = st.queues
    /\ pending' = st.pending
    /\ scheduled' = st.scheduled
    /\ last' = st.last
    /\ consumer' = st.consumer
    /\ ready' = st.ready
    /\ timeline' = st.timeline

Without(seq, i) == SelectSeq(seq, LAMBDA x : x # i)

\* SiapDequeue.canProcess(), r being consumer.canProcessQueue()
canProcess(st, r) == IF st.consumer THEN r ELSE FALSE

\* Queue.next(): with a non-empty list and a true check, shift the head
\* and hand it to the handler; with an empty list, emit 'done'.
QueueNext(st, r) ==
    IF st.pending # <<>>
    THEN IF canProcess(st, r)
         THEN [st EXCEPT !.ready = TRUE,
                         !.scheduled = Head(st.pending),
                         !.pending = Tail(st.pending)]
         ELSE [st EXCEPT !.ready = FALSE]
    ELSE st

\* Queue.requeue(queues, top)
QueueRequeue(st, i, top) ==
    IF top THEN [st EXCEPT !.pending = <<i>> \o st.pending]
    ELSE [st EXCEPT !.pending = Append(st.pending, i)]

getNext(st) == IF Len(st.pending) > 0 THEN st.pending[1] ELSE 0

\* genId(): the first 8 hex digits of the SHA-1 of the clock's decimal
\* digits, tabulated for the clock values 0..5.
genId(t) ==
    CASE t = 0 -> "b6589fc6"
      [] t = 1 -> "356a192b"
      [] t = 2 -> "da4b9237"
      [] t = 3 -> "77de68da"
      [] t = 4 -> "1b645389"
      [] t = 5 -> "ac3478d6"

setId(q, id) == [q EXCEPT !.id = id]

setLastQueue(st, i) ==
    IF st.queues[i].type # QUEUE_CALLBACK THEN [st EXCEPT !.last = i] ELSE st

EffectiveTimeout(q) == IF q.hasTimeout THEN q.timeout ELSE Timeout

(***************************************************************************)
(* SiapDequeue.doQueue: success, fail, retry, doit.                        *)
(***************************************************************************)
successNoResolve(st, i, c) ==
    LET q == st.queues[i]
        q1 == done(q, Result)
        q2 == [q1 EXCEPT !.inflight = "none", !.faulted = FALSE, !.evDone = @ + 1]
        s1 == setLastQueue([st EXCEPT !.queues[i] = q2], i)
    IN QueueNext(s1, c.ready)

successNoEmit(st, i, c) ==
    LET q == st.queues[i]
        q1 == done(q, Result)
        q2 == [q1 EXCEPT !.inflight = "none", !.faulted = FALSE,
                         !.nResolve = IF q.cont THEN @ + 1 ELSE @]
        s1 == setLastQueue([st EXCEPT !.queues[i] = q2], i)
    IN QueueNext(s1, c.ready)

success(st, i, c) ==
    LET q == st.queues[i]
        q1 == done(q, Result)
        q2 == [q1 EXCEPT !.inflight = "none", !.faulted = FALSE,
                         !.nResolve = IF q.cont THEN @ + 1 ELSE @,
                         !.evDone = @ + 1]
        s1 == setLastQueue([st EXCEPT !.queues[i] = q2], i)
    IN QueueNext(s1, c.ready)

failNoNext(st, i, err, c) ==
    LET q == st.queues[i]
        q1 == error(q, err)
        q2 == [q1 EXCEPT !.inflight = "none", !.faulted = FALSE,
                         !.nReject = IF q.cont THEN @ + 1 ELSE @,
                         !.evError = @ + 1]
    IN setLastQueue([st EXCEPT !.queues[i] = q2], i)

fail(st, i, err, c) ==
    LET q == st.queues[i]
        q1 == error(q, err)
        q2 == [q1 EXCEPT !.inflight = "none", !.faulted = FALSE,
                         !.nReject = IF q.cont THEN @ + 1 ELSE @,
                         !.evError = @ + 1]
        s1 == setLastQueue([st EXCEPT !.queues[i] = q2], i)
    IN QueueNext(s1, c.ready)

doitFaultFails(st, i, c) ==
    LET q == st.queues[i] IN
    IF q.status # STATUS_SKIPPED
    THEN LET q1 == [start(q) EXCEPT !.evStart = @ + 1, !.inflight = "none",
                                    !.approved = FALSE, !.faulted = FALSE]
             s1 == [st EXCEPT !.queues[i] = q1,
                              !.timeline = Append(Without(st.timeline, i), i)]
             s2 == [s1 EXCEPT !.queues[i].attempts = @ + 1]
             s3 == [s2 EXCEPT !.queues[i].inflight = "processQueue"]
             nextqueue == getNext(s3)
         IN IF c.fault = "listener"
            THEN QueueNext([s1 EXCEPT !.queues[i].faulted = TRUE], c.ready)
            ELSE IF c.fault = "processQueue"
            THEN [fail(s2, i, OtherError, c) EXCEPT !.queues[i].faulted = TRUE]
            ELSE IF nextqueue # 0 /\ s3.queues[nextqueue].type # QUEUE_CALLBACK
                 THEN IF c.fault = "canHandleNextQueue"
                      THEN QueueNext([s3 EXCEPT !.queues[i].faulted = TRUE], c.ready)
                      ELSE IF c.handle
                           THEN QueueNext([s3 EXCEPT !.queues[nextqueue].approved = TRUE],
                                          c.ready)
                           ELSE s3
                 ELSE s3
    ELSE QueueNext(st, c.ready)

doitNoBypass(st, i, c) ==
    LET q == st.queues[i] IN
    IF TRUE
    THEN LET q1 == [start(q) EXCEPT !.evStart = @ + 1, !.inflight = "none",
                                    !.approved = FALSE, !.faulted = FALSE]
             s1 == [st EXCEPT !.queues[i] = q1,
                              !.timeline = Append(Without(st.timeline, i), i)]
             s2 == [s1 EXCEPT !.queues[i].attempts = @ + 1]
             s3 == [s2 EXCEPT !.queues[i].inflight = "processQueue"]
             nextqueue == getNext(s3)
         IN IF c.fault = "listener"
            THEN QueueNext([s1 EXCEPT !.queues[i].faulted = TRUE], c.ready)
            ELSE IF c.fault = "processQueue"
            THEN QueueNext([s2 EXCEPT !.queues[i].faulted = TRUE], c.ready)
            ELSE IF nextqueue # 0 /\ s3.queues[nextqueue].type # QUEUE_CALLBACK
                 THEN IF c.fault = "canHandleNextQueue"
                      THEN QueueNext([s3 EXCEPT !.queues[i].faulted = TRUE], c.ready)
                      ELSE IF c.handle
                           THEN QueueNext([s3 EXCEPT !.queues[nextqueue].approved = TRUE],
                                          c.ready)
                           ELSE s3
                 ELSE s3
    ELSE QueueNext(st, c.ready)

doit(st, i, c) ==
    LET q == st.queues[i] IN
    IF q.status # STATUS_SKIPPED
    THEN LET q1 == [start(q) EXCEPT !.evStart = @ + 1, !.inflight = "none",
                                    !.approved = FALSE, !.faulted = FALSE]
             s1 == [st EXCEPT !.queues[i] = q1,
                              !.timeline = Append(Without(st.timeline, i), i)]
             s2 == [s1 EXCEPT !.queues[i].attempts = @ + 1]
             s3 == [s2 EXCEPT !.queues[i].inflight = "processQueue"]
             nextqueue == getNext(s3)
         IN IF c.fault = "listener"
            THEN QueueNext([s1 EXCEPT !.queues[i].faulted = TRUE], c.ready)
            ELSE IF c.fault = "processQueue"
            THEN QueueNext([s2 EXCEPT !.queues[i].faulted = TRUE], c.ready)
            ELSE IF nextqueue # 0 /\ s3.queues[nextqueue].type # QUEUE_CALLBACK
                 THEN IF c.fault = "canHandleNextQueue"
                      THEN QueueNext([s3 EXCEPT !.queues[i].faulted = TRUE], c.ready)
                      ELSE IF c.handle
                           THEN QueueNext([s3 EXCEPT !.queues[nextqueue].approved = TRUE],
                                          c.ready)
                           ELSE s3
                 ELSE s3
    ELSE QueueNext(st, c.ready)

retryAnyError(st, i, err, c) ==
    LET q == st.queues[i]
        q1 == [q EXCEPT !.retryCount = @ + 1, !.faulted = FALSE]
        s1 == [st EXCEPT !.queues[i] = q1]
    IN IF q1.retry /\ q1.retryCount <= Retry
       THEN IF q1.onretry
            THEN [s1 EXCEPT !.queues[i].inflight = "onretry"]
            ELSE doit(s1, i, c)
       ELSE fail(s1, i, err, c)

retryStrict(st, i, err, c) ==
    LET q == st.queues[i]
        q1 == [q EXCEPT !.retryCount = @ + 1, !.faulted = FALSE]
        s1 == [st EXCEPT !.queues[i] = q1]
    IN IF err = SiapRetryError /\ q1.retry /\ q1.retryCount < Retry
       THEN IF q1.onretry
            THEN [s1 EXCEPT !.queues[i].inflight = "onretry"]
            ELSE doit(s1, i, c)
       ELSE fail(s1, i, err, c)

retry(st, i, err, c) ==
    LET q == st.queues[i]
        q1 == [q EXCEPT !.retryCount = @ + 1, !.faulted = FALSE]
        s1 == [st EXCEPT !.queues[i] = q1]
    IN IF err = SiapRetryError /\ q1.retry /\ q1.retryCount <= Retry
       THEN IF q1.onretry
            THEN [s1 EXCEPT !.queues[i].inflight = "onretry"]
            ELSE doit(s1, i, c)
       ELSE fail(s1, i, err, c)

\* The continuations of queue.onretry(): .then(() => doit()), .catch(err => fail(err))
onretryCatchRetries(st, i, err, c) == doit(st, i, c)

onretryCatch(st, i, err, c) == fail(st, i, err, c)

(***************************************************************************)
(* The polling loop body f of setConsumer.                                 *)
(***************************************************************************)
ProcessingByStart(st) ==
    SelectSeq(st.timeline, LAMBDA n : st.queues[n].status = STATUS_PROCESSING)

Processing(st) ==
    SelectSeq([n \in 1..Len(st.queues) |-> n],
              LAMBDA n : st.queues[n].status = STATUS_PROCESSING)

fAnyTimeout(st, r) ==
    LET processing == Processing(st) IN
    IF Len(processing) > 0
    THEN LET i == processing[1]
             q == st.queues[i]
             timeout == EffectiveTimeout(q)
         IN IF q.over
            THEN LET q1 == setStatus(q, STATUS_TIMED_OUT)
                 IN IF q.ontimeout
                    THEN [st EXCEPT !.queues[i] = [q1 EXCEPT !.hooks = @ + 1]]
                    ELSE QueueNext([st EXCEPT !.queues[i] = q1], r)
            ELSE st
    ELSE IF Len(st.queues) > 0 THEN QueueNext(st, r)
    ELSE st

f(st, r) ==
    LET processing == Processing(st) IN
    IF Len(processing) > 0
    THEN LET i == processing[1]
             q == st.queues[i]
             timeout == EffectiveTimeout(q)
         IN IF timeout > 0 /\ q.over
            THEN LET q1 == setStatus(q, STATUS_TIMED_OUT)
                 IN IF q.ontimeout
                    THEN [st EXCEPT !.queues[i] = [q1 EXCEPT !.hooks = @ + 1]]
                    ELSE QueueNext([st EXCEPT !.queues[i] = q1], r)
            ELSE st
    ELSE IF Len(st.queues) > 0 THEN QueueNext(st, r)
    ELSE st

(***************************************************************************)
(* saveQueue: the items written to queue/saved.queue, in history order     *)
(* (each as its {type, id, data, callback}); nothing is written when the   *)
(* selection is empty.                                                     *)
(***************************************************************************)
saveQueueWithCallbacks(st) ==
    SelectSeq([n \in 1..Len(st.queues) |-> n],
              LAMBDA n : st.queues[n].status = STATUS_NEW)

saveQueue(st) ==
    SelectSeq([n \in 1..Len(st.queues) |-> n],
              LAMBDA n : /\ st.queues[n].type # QUEUE_CALLBACK
                         /\ st.queues[n].status = STATUS_NEW)

(***************************************************************************)
(* The Field Resolver: SiapQueue.getMap, getMappedData, getDataValue and   *)
(* getTranslatedValue.  A string is the sequence of its characters; the    *)
(* values undefined and null are one-element sequences that no string is.  *)
(***************************************************************************)
UndefinedValue == <<"undefined">>
NullValue == <<"null">>
ObjectValue == <<"object">>

\* typeof key === 'string'
IsString(v) == v \notin {UndefinedValue, NullValue, ObjectValue}

\* String(v), as Array.join and String.replace convert a value
AsJoined(v) == IF IsString(v) THEN v ELSE <<>>
AsReplacement(v) ==
    IF v = UndefinedValue THEN <<"u", "n", "d", "e", "f", "i", "n", "e", "d">>
    ELSE IF v = NullValue THEN <<"n", "u", "l", "l">>
    ELSE v

\* s.indexOf(ch), 0-based, -1 when absent
indexOf(s, ch) ==
    IF \E n \in 1..Len(s) : s[n] = ch
    THEN (CHOOSE n \in 1..Len(s) : s[n] = ch /\ \A m \in 1..(n - 1) : s[m] # ch) - 1
    ELSE -1

\* s.split(ch)
RECURSIVE split(_, _)
split(s, ch) ==
    LET n == indexOf(s, ch)
    IN IF n < 0 THEN <<s>>
       ELSE <<SubSeq(s, 1, n)>> \o split(SubSeq(s, n + 2, Len(s)), ch)

\* s.trim()
RECURSIVE trim(_)
trim(s) ==
    IF s = <<>> THEN s
    ELSE IF Head(s) = " " THEN trim(Tail(s))
    ELSE IF s[Len(s)] = " " THEN trim(SubSeq(s, 1, Len(s) - 1))
    ELSE s

\* v.join(separator)
RECURSIVE join(_, _)
join(v, separator) ==
    IF v = <<>> THEN <<>>
    ELSE IF Len(v) = 1 THEN AsJoined(v[1])
    ELSE AsJoined(v[1]) \o separator \o join(Tail(v), separator)

\* value.replace(new RegExp(pattern, 'g'), replacement), pattern without
\* metacharacters and replacement without `$`
RECURSIVE replace(_, _, _)
replace(value, pattern, replacement) ==
    IF Len(value) < Len(pattern) \/ pattern = <<>> THEN value
    ELSE IF SubSeq(value, 1, Len(pattern)) = pattern
         THEN replacement
                \o replace(SubSeq(value, Len(pattern) + 1, Len(value)), pattern, replacement)
         ELSE <<Head(value)>> \o replace(Tail(value), pattern, replacement)

\* '%' + (i + 1) + '%', i being the 0-based index of forEach
Placeholder(i) == <<"%", <<"1", "2", "3", "4", "5", "6", "7", "8", "9">>[i + 1], "%">>

RECURSIVE getDataValue(_, _)
RECURSIVE getTranslatedValue(_, _)
RECURSIVE formatEach(_, _, _, _)

\* FORMAT: values.forEach((n, i) => value = value.replace(...)) from index i on
formatEach(data, value, values, i) ==
    IF i >= Len(values) THEN value
    ELSE formatEach(data,
                    replace(value, Placeholder(i),
                            AsReplacement(getDataValue(data, trim(values[i + 1])))),
                    values, i + 1)

getTranslatedValue(data, value) ==
    LET x == split(value, ":")
        vtype == x[1]
        vvalue == x[2]
        values == split(vvalue, "|")
    IN IF vtype = <<"C", "O", "N", "C", "A", "T">>
       THEN join([n \in 1..(Len(values) - 1) |->
                     getDataValue(data, trim(values[n + 1]))], Head(values))
       ELSE IF vtype = <<"F", "O", "R", "M", "A", "T">>
       THEN formatEach(data, Head(values), Tail(values), 0)
       ELSE value

getDataValue(data, key) ==
    IF IsString(key)
    THEN IF key \in DOMAIN data THEN data[key]
         ELSE IF indexOf(key, ":") > 0 THEN getTranslatedValue(data, key)
         ELSE UndefinedValue
    ELSE UndefinedValue

\* A maps object is [fields |-> a function from names to nodes], a payload
\* key at its leaves is [key |-> the key], and an unset maps is NoMaps.
\* walk is the while loop of getMap over parts = name.split('.').
NoMaps == [set |-> FALSE]

RECURSIVE walk(_, _)
walk(o, parts) ==
    IF parts = <<>> THEN (IF "key" \in DOMAIN o THEN o.key ELSE ObjectValue)
    ELSE IF "fields" \in DOMAIN o /\ Head(parts) \in DOMAIN o.fields
         THEN walk(o.fields[Head(parts)], Tail(parts))
         ELSE NullValue

getMap(maps, name) ==
    IF maps # NoMaps
    THEN IF IsString(name) THEN walk(maps, split(name, "."))
         ELSE UndefinedValue
    ELSE UndefinedValue

getMappedData(maps, data, name) == getDataValue(data, getMap(maps, name))

(***************************************************************************)
(* SiapQueue.hasPendingQueue(queue), a static over the module's singleton. *)
(***************************************************************************)
hasPendingQueueAnyInfo(queue) ==
    IF dequeue
    THEN Len(SelectSeq(queues, LAMBDA q :
                /\ q.type = queue.type
                /\ q.status \in {STATUS_NEW, STATUS_PROCESSING})) > 0
    ELSE FALSE

hasPendingQueue(queue) ==
    IF dequeue
    THEN Len(SelectSeq(queues, LAMBDA q :
                /\ q.type = queue.type /\ q.info = queue.info
                /\ q.status \in {STATUS_NEW, STATUS_PROCESSING})) > 0
    ELSE FALSE

(***************************************************************************)
(* Actions.                                                                *)
(***************************************************************************)
\* The module is loaded: no dispatcher exists yet.
ModuleInit ==
    /\ queues = <<>>
    /\ pending = <<>>
    /\ scheduled = 0
    /\ last = 0
    /\ consumer = FALSE
    /\ loops = 0
    /\ ready = FALSE
    /\ timeline = <<>>
    /\ now = 0
    /\ dequeue = FALSE
    /\ resolver = NoCall

\* SiapQueue.createDequeuer(): the first call constructs the singleton.
createDequeuer ==
    /\ scheduled = 0
    /\ dequeue' = TRUE
    /\ UNCHANGED <<queues, pending, scheduled, last, consumer, loops, ready, timeline>>
    /\ UNCHANGED <<now, resolver>>

Init ==
    /\ queues = <<>>
    /\ pending = <<>>
    /\ scheduled = 0
    /\ last = 0
    /\ consumer = FALSE
    /\ loops = 0
    /\ ready = FALSE
    /\ timeline = <<>>
    /\ now = 0
    /\ dequeue = TRUE
    /\ resolver = NoCall

\* setConsumer(consumer): attach, install one more loop and run f() once.
setConsumer(r) ==
    /\ scheduled = 0
    /\ loops < MaxLoops
    /\ loops' = loops + 1
    /\ Install(f([State EXCEPT !.consumer = TRUE], r))
    /\ UNCHANGED <<now, dequeue, resolver>>

\* The non-callback items in the runner's list.
Waiting(st) ==
    {st.pending[n] : n \in {m \in 1..Len(st.pending) :
                              st.queues[st.pending[m]].type # QUEUE_CALLBACK}}

addAllOnTop(k, r) ==
    /\ scheduled = 0
    /\ LET i == Len(queues) + 1
           q0 == [create(k) EXCEPT !.behind = IF k.type = QUEUE_CALLBACK THEN Waiting(State) ELSE {}]
           q == IF q0.id = NoId THEN setId(q0, genId(now)) ELSE q0
           s1 == [State EXCEPT !.queues = Append(queues, q)]
           s2 == QueueRequeue(s1, i, TRUE)
       IN Install(QueueNext(s2, r))
    /\ UNCHANGED <<loops, now, dequeue, resolver>>

addAllAtTail(k, r) ==
    /\ scheduled = 0
    /\ LET i == Len(queues) + 1
           q0 == [create(k) EXCEPT !.behind = IF k.type = QUEUE_CALLBACK THEN Waiting(State) ELSE {}]
           q == IF q0.id = NoId THEN setId(q0, genId(now)) ELSE q0
           s1 == [State EXCEPT !.queues = Append(queues, q)]
           s2 == QueueRequeue(s1, i, FALSE)
       IN Install(QueueNext(s2, r))
    /\ UNCHANGED <<loops, now, dequeue, resolver>>

\* add(queue)
add(k, r) ==
    /\ scheduled = 0
    /\ LET i == Len(queues) + 1
           q0 == [create(k) EXCEPT !.behind = IF k.type = QUEUE_CALLBACK THEN Waiting(State) ELSE {}]
           q == IF q0.id = NoId THEN setId(q0, genId(now)) ELSE q0
           s1 == [State EXCEPT !.queues = Append(queues, q)]
           s2 == QueueRequeue(s1, i, k.type = QUEUE_CALLBACK)
       IN Install(QueueNext(s2, r))
    /\ UNCHANGED <<loops, now, dequeue, resolver>>

\* The handler of the runner: doQueue(queue) for the item Queue.next() shifted.
doQueue(c) ==
    /\ scheduled # 0
    /\ LET i == scheduled
           st == [State EXCEPT !.scheduled = 0]
       IN IF st.consumer THEN Install(doit(st, i, c)) ELSE Install(st)
    /\ UNCHANGED <<loops, now, dequeue, resolver>>

\* consumer.processQueue(queue) fulfils
Fulfil(i, c) ==
    /\ scheduled = 0
    /\ i \in 1..Len(queues)
    /\ queues[i].inflight = "processQueue"
    /\ Install(success(State, i, c))
    /\ UNCHANGED <<loops, now, dequeue, resolver>>

\* consumer.processQueue(queue) rejects with err
Reject(i, err, c) ==
    /\ scheduled = 0
    /\ i \in 1..Len(queues)
    /\ queues[i].inflight = "processQueue"
    /\ Install(retry([State EXCEPT !.queues[i].inflight = "none"], i, err, c))
    /\ UNCHANGED <<loops, now, dequeue, resolver>>

\* queue.onretry() fulfils
RetryHookFulfil(i, c) ==
    /\ scheduled = 0
    /\ i \in 1..Len(queues)
    /\ queues[i].inflight = "onretry"
    /\ Install(doit(State, i, c))
    /\ UNCHANGED <<loops, now, dequeue, resolver>>

\* queue.onretry() rejects
RetryHookReject(i, c) ==
    /\ scheduled = 0
    /\ i \in 1..Len(queues)
    /\ queues[i].inflight = "onretry"
    /\ Install(onretryCatch(State, i, HookError, c))
    /\ UNCHANGED <<loops, now, dequeue, resolver>>

\* One run of f by a timer of a polling loop.
PollTick(r) ==
    /\ scheduled = 0
    /\ loops > 0
    /\ Install(f(State, r))
    /\ UNCHANGED <<loops, now, dequeue, resolver>>

\* queue.ontimeout() settles (either way: both branches call Queue.next()).
TimeoutHookSettle(i, r) ==
    /\ scheduled = 0
    /\ i \in 1..Len(queues)
    /\ queues[i].hooks > 0
    /\ Install(QueueNext([State EXCEPT !.queues[i].hooks = @ - 1], r))
    /\ UNCHANGED <<loops, now, dequeue, resolver>>

\* Time passes until item j's elapsed time exceeds its effective timeout.
\* An item started no later, with a timeout no larger, has exceeded its own too.
Elapse(j) ==
    /\ scheduled = 0
    /\ j \in 1..Len(queues)
    /\ queues[j].status = STATUS_PROCESSING
    /\ EffectiveTimeout(queues[j]) > 0
    /\ ~queues[j].over
    /\ LET pos(x) == CHOOSE n \in 1..Len(timeline) : timeline[n] = x
           dragged(i) == /\ \E n \in 1..Len(timeline) : timeline[n] = i
                         /\ pos(i) < pos(j)
                         /\ EffectiveTimeout(queues[i]) > 0
                         /\ EffectiveTimeout(queues[i]) <= EffectiveTimeout(queues[j])
       IN queues' = [i \in 1..Len(queues) |->
                        IF i = j \/ dragged(i)
                        THEN [queues[i] EXCEPT !.over = TRUE]
                        ELSE queues[i]]
    /\ UNCHANGED <<pending, scheduled, last, consumer, loops, ready, timeline>>
    /\ UNCHANGED <<now, dequeue, resolver>>

\* Time passes until item j's elapsed time exceeds its effective timeout,
\* whatever that timeout is (any time at all exceeds a timeout <= 0).
Passes(j) ==
    /\ scheduled = 0
    /\ j \in 1..Len(queues)
    /\ queues[j].status = STATUS_PROCESSING
    /\ ~queues[j].over
    /\ LET pos(x) == CHOOSE n \in 1..Len(timeline) : timeline[n] = x
           dragged(i) == /\ \E n \in 1..Len(timeline) : timeline[n] = i
                         /\ pos(i) < pos(j)
                         /\ EffectiveTimeout(queues[i]) <= EffectiveTimeout(queues[j])
       IN queues' = [i \in 1..Len(queues) |->
                        IF i = j \/ dragged(i)
                        THEN [queues[i] EXCEPT !.over = TRUE]
                        ELSE queues[i]]
    /\ UNCHANGED <<pending, scheduled, last, consumer, loops, ready, timeline>>
    /\ UNCHANGED <<now, dequeue, resolver>>

\* The payload and the maps of the item the Field Resolver is called on.
Data ==
    (<<"a">> :> <<"X">>) @@ (<<"b">> :> <<"Y">>) @@ (<<"k", ":", "1">> :> <<"Z">>)

Maps ==
    [set |-> TRUE,
     fields |-> (<<"r">> :> [fields |-> (<<"n">> :> [key |-> <<"a">>])
                                          @@ (<<"m">> :> [key |-> <<"k", ":", "1">>])])]

\* The inputs of the calls: TYPE:first|ref1|ref2 and dotted names.
Types == {<<"C", "O", "N", "C", "A", "T">>, <<"F", "O", "R", "M", "A", "T">>}
Firsts ==
    {<<",">>, <<":">>, <<>>, <<"%", "1", "%", "-", "%", "2", "%">>,
     <<"%", "1", "%", ":", "%", "2", "%">>, <<"%", "2", "%", "%", "1", "%", "%", "2", "%">>}
Refs == {<<"a">>, <<" ", "b", " ">>, <<"z">>, <<"k", ":", "1">>}
Names == {<<"a">>, <<"b">>, <<"r", ".", "n">>, <<"r", ".", "m">>, <<"r">>, <<"q", ".", "n">>}

\* queue.getDataValue(key) with key = vtype:first|r1|r2
getDataValueCall(vtype, first, r1, r2) ==
    /\ scheduled = 0
    /\ LET key == vtype \o <<":">> \o first \o <<"|">> \o r1 \o <<"|">> \o r2
       IN resolver' = [made |-> TRUE, call |-> "getDataValue", hasMaps |-> FALSE,
                       name |-> <<>>, vtype |-> vtype, first |-> first,
                       refs |-> <<r1, r2>>, key |-> key,
                       value |-> getDataValue(Data, key)]
    /\ UNCHANGED <<queues, pending, scheduled, last, consumer, loops, ready, timeline>>
    /\ UNCHANGED <<now, dequeue>>

\* queue.getDataValue(key) with a key of the payload
getDataValueCallLiteral(key) ==
    /\ scheduled = 0
    /\ resolver' = [made |-> TRUE, call |-> "getDataValue", hasMaps |-> FALSE,
                    name |-> <<>>, vtype |-> <<>>, first |-> <<>>, refs |-> <<>>,
                    key |-> key, value |-> getDataValue(Data, key)]
    /\ UNCHANGED <<queues, pending, scheduled, last, consumer, loops, ready, timeline>>
    /\ UNCHANGED <<now, dequeue>>

\* queue.getMappedData(name), on an item with or without maps
getMappedDataCall(hasMaps, name) ==
    /\ scheduled = 0
    /\ resolver' = [made |-> TRUE, call |-> "getMappedData", hasMaps |-> hasMaps,
                    name |-> name, vtype |-> <<>>, first |-> <<>>, refs |-> <<>>,
                    key |-> <<>>,
                    value |-> getMappedData(IF hasMaps THEN Maps ELSE NoMaps, Data, name)]
    /\ UNCHANGED <<queues, pending, scheduled, last, consumer, loops, ready, timeline>>
    /\ UNCHANGED <<now, dequeue>>

\* One millisecond passes on the clock.
Tick ==
    /\ scheduled = 0
    /\ now < MaxClock
    /\ now' = now + 1
    /\ UNCHANGED <<queues, pending, scheduled, last, consumer, loops, ready, timeline>>
    /\ UNCHANGED <<dequeue, resolver>>

\* An external actor marks a not yet dispatched item SKIPPED.
Skip(i) ==
    /\ scheduled = 0
    /\ i \in 1..Len(queues)
    /\ queues[i].status = STATUS_NEW
    /\ queues' = [queues EXCEPT ![i] = setStatus(@, STATUS_SKIPPED)]
    /\ UNCHANGED <<pending, scheduled, last, consumer, loops, ready, timeline>>
    /\ UNCHANGED <<now, dequeue, resolver>>

Next ==
    \/ \E r \in BOOLEAN : setConsumer(r)
    \/ \E k \in Kinds, r \in BOOLEAN : Len(queues) < MaxItems /\ add(k, r)
    \/ \E c \in Answers : doQueue(c)
    \/ \E i \in 1..MaxItems, c \in Quiet : Fulfil(i, c)
    \/ \E i \in 1..MaxItems, err \in {SiapRetryError, OtherError}, c \in Quiet :
          Reject(i, err, c)
    \/ \E r \in BOOLEAN : PollTick(r)
    \/ \E j \in 1..MaxItems : Elapse(j)
    \/ \E i \in 1..MaxItems : Skip(i)

Spec == Init /\ [][Next]_vars

\* The same operations with the clock running, over the items of the id scenarios.
IdNext ==
    \/ \E r \in BOOLEAN : setConsumer(r)
    \/ \E k \in IdKinds, r \in BOOLEAN : Len(queues) < MaxItems /\ add(k, r)
    \/ \E c \in Answers : doQueue(c)
    \/ \E i \in 1..MaxItems, c \in Quiet : Fulfil(i, c)
    \/ \E i \in 1..MaxItems, err \in {SiapRetryError, OtherError}, c \in Quiet :
          Reject(i, err, c)
    \/ \E r \in BOOLEAN : PollTick(r)
    \/ \E j \in 1..MaxItems : Elapse(j)
    \/ \E i \in 1..MaxItems : Skip(i)
    \/ Tick

IdSpec == Init /\ [][IdNext]_vars

\* The module from its load on, over the items of the duplicate-submission scenarios.
PendingNext ==
    \/ createDequeuer
    \/ \E r \in BOOLEAN : dequeue /\ setConsumer(r)
    \/ \E k \in InfoKinds, r \in BOOLEAN :
          dequeue /\ Len(queues) < MaxItems /\ add(k, r)
    \/ \E c \in Answers : doQueue(c)
    \/ \E i \in 1..MaxItems, c \in Quiet : Fulfil(i, c)
    \/ \E i \in 1..MaxItems, err \in {SiapRetryError, OtherError}, c \in Quiet :
          Reject(i, err, c)
    \/ \E r \in BOOLEAN : PollTick(r)
    \/ \E j \in 1..MaxItems : Elapse(j)
    \/ \E i \in 1..MaxItems : Skip(i)

PendingSpec == ModuleInit /\ [][PendingNext]_vars

\* The same operations over the items of the timeout hook scenarios.
HookNext ==
    \/ \E r \in BOOLEAN : setConsumer(r)
    \/ \E k \in HookKinds, r \in BOOLEAN : Len(queues) < MaxHookItems /\ add(k, r)
    \/ \E c \in Answers : doQueue(c)
    \/ \E i \in 1..MaxHookItems, c \in Quiet : Fulfil(i, c)
    \/ \E i \in 1..MaxHookItems, err \in {SiapRetryError, OtherError}, c \in Quiet :
          Reject(i, err, c)
    \/ \E r \in BOOLEAN : PollTick(r)
    \/ \E i \in 1..MaxHookItems, r \in BOOLEAN : TimeoutHookSettle(i, r)
    \/ \E j \in 1..MaxHookItems : Elapse(j)
    \/ \E i \in 1..MaxHookItems : Skip(i)

HookSpec == Init /\ [][HookNext]_vars

\* The same operations over the items of the fault scenarios, with the
\* scheduling the runtime and a well-behaved consumer guarantee: the handler
\* of a shifted item runs, the poll timer keeps firing and finds the consumer
\* ready, time passes, and every processQueue promise is settled.
FaultNext ==
    \/ \E r \in BOOLEAN : setConsumer(r)
    \/ \E k \in FaultKinds, r \in BOOLEAN : Len(queues) < MaxItems /\ add(k, r)
    \/ \E c \in Answers : doQueue(c)
    \/ \E i \in 1..MaxItems, c \in Quiet : Fulfil(i, c)
    \/ \E i \in 1..MaxItems, err \in {SiapRetryError, OtherError}, c \in Quiet :
          Reject(i, err, c)
    \/ \E r \in BOOLEAN : PollTick(r)
    \/ \E j \in 1..MaxItems : Elapse(j)
    \/ \E i \in 1..MaxItems : Skip(i)

FaultSpec ==
    /\ Init /\ [][FaultNext]_vars
    /\ WF_vars(\E c \in Answers : doQueue(c))
    /\ WF_vars(PollTick(TRUE))
    /\ \A i \in 1..MaxItems : WF_vars(Elapse(i))
    /\ \A i \in 1..MaxItems : WF_vars(Fulfil(i, Ready))

\* The same operations with the scheduling the runtime alone guarantees: the
\* handler of a shifted item runs, the poll timer keeps firing and finds the
\* consumer ready, and time passes; no promise is bound to settle.
PollSpec ==
    /\ Init /\ [][FaultNext]_vars
    /\ WF_vars(\E c \in Answers : doQueue(c))
    /\ WF_vars(PollTick(TRUE))
    /\ \A i \in 1..MaxItems : WF_vars(Elapse(i))

\* The calls of the Field Resolver on an item.
ResolverNext ==
    \/ \E vtype \in Types, first \in Firsts, r1 \in Refs, r2 \in Refs :
          getDataValueCall(vtype, first, r1, r2)
    \/ \E key \in DOMAIN Data : getDataValueCallLiteral(key)
    \/ \E hasMaps \in BOOLEAN, name \in Names : getMappedDataCall(hasMaps, name)

ResolverSpec == Init /\ [][ResolverNext]_vars

\* The same operations with one more submission.
BurstNext ==
    \/ \E r \in BOOLEAN : setConsumer(r)
    \/ \E k \in Kinds, r \in BOOLEAN : Len(queues) < MaxBurstItems /\ add(k, r)
    \/ \E c \in Answers : doQueue(c)
    \/ \E i \in 1..MaxBurstItems, c \in Quiet : Fulfil(i, c)
    \/ \E i \in 1..MaxBurstItems, err \in {SiapRetryError, OtherError}, c \in Quiet :
          Reject(i, err, c)
    \/ \E r \in BOOLEAN : PollTick(r)
    \/ \E j \in 1..MaxBurstItems : Elapse(j)
    \/ \E i \in 1..MaxBurstItems : Skip(i)

BurstSpec == Init /\ [][BurstNext]_vars

\* The same operations over the items of the failure scenarios.
FailNext ==
    \/ \E r \in BOOLEAN : setConsumer(r)
    \/ \E k \in FailKinds, r \in BOOLEAN : Len(queues) < MaxFailItems /\ add(k, r)
    \/ \E c \in Answers : doQueue(c)
    \/ \E i \in 1..MaxFailItems, c \in Quiet : Fulfil(i, c)
    \/ \E i \in 1..MaxFailItems, err \in {SiapRetryError, OtherError}, c \in Faultless :
          Reject(i, err, c)
    \/ \E r \in BOOLEAN : PollTick(r)
    \/ \E i \in 1..MaxFailItems : Skip(i)

FailSpec == Init /\ [][FailNext]_vars

\* The same operations over the items of the retry and hook scenarios.
RetryNext ==
    \/ \E r \in BOOLEAN : setConsumer(r)
    \/ \E k \in RetryKinds, r \in BOOLEAN : Len(queues) < MaxRetryItems /\ add(k, r)
    \/ \E c \in Answers : doQueue(c)
    \/ \E i \in 1..MaxRetryItems, c \in Quiet : Fulfil(i, c)
    \/ \E i \in 1..MaxRetryItems, err \in {SiapRetryError, OtherError}, c \in Answers :
          Reject(i, err, c)
    \/ \E i \in 1..MaxRetryItems, c \in Answers : RetryHookFulfil(i, c)
    \/ \E i \in 1..MaxRetryItems, c \in Quiet : RetryHookReject(i, c)
    \/ \E r \in BOOLEAN : PollTick(r)
    \/ \E i \in 1..MaxRetryItems, r \in BOOLEAN : TimeoutHookSettle(i, r)
    \/ \E j \in 1..MaxRetryItems : Elapse(j)
    \/ \E i \in 1..MaxRetryItems : Skip(i)

RetrySpec == Init /\ [][RetryNext]_vars

\* The same operations over the items of the error scenarios, with a consumer
\* that throws nothing.
ErrorNext ==
    \/ \E r \in BOOLEAN : setConsumer(r)
    \/ \E k \in ErrorKinds, r \in BOOLEAN : Len(queues) < MaxErrorItems /\ add(k, r)
    \/ \E c \in Faultless : doQueue(c)
    \/ \E i \in 1..MaxErrorItems, c \in Quiet : Fulfil(i, c)
    \/ \E i \in 1..MaxErrorItems, err \in {SiapRetryError, OtherError}, c \in Faultless :
          Reject(i, err, c)
    \/ \E i \in 1..MaxErrorItems, c \in Faultless : RetryHookFulfil(i, c)
    \/ \E i \in 1..MaxErrorItems, c \in Quiet : RetryHookReject(i, c)
    \/ \E r \in BOOLEAN : PollTick(r)

ErrorSpec == Init /\ [][ErrorNext]_vars

\* The same operations with time passing for every PROCESSING item, with or
\* without a positive timeout.
TimeoutNext ==
    \/ \E r \in BOOLEAN : setConsumer(r)
    \/ \E k \in TimeoutKinds, r \in BOOLEAN : Len(queues) < MaxTimeoutItems /\ add(k, r)
    \/ \E c \in Answers : doQueue(c)
    \/ \E i \in 1..MaxTimeoutItems, c \in Quiet : Fulfil(i, c)
    \/ \E i \in 1..MaxTimeoutItems, err \in {SiapRetryError, OtherError}, c \in Quiet :
          Reject(i, err, c)
    \/ \E r \in BOOLEAN : PollTick(r)
    \/ \E j \in 1..MaxTimeoutItems : Passes(j)
    \/ \E i \in 1..MaxTimeoutItems : Skip(i)

TimeoutSpec == Init /\ [][TimeoutNext]_vars

(***************************************************************************)
(* Properties.                                                             *)
(***************************************************************************)
Items == 1..Len(queues)
Started(i) == queues[i].evStart > 0
NonCallback(i) == queues[i].type # QUEUE_CALLBACK

\* C1: in every reachable state at most two history items have status
\* PROCESSING at the same time.
C1_AtMostTwoProcessing ==
    Cardinality({i \in Items : queues[i].status = STATUS_PROCESSING}) <= 2

\* C9: a CALLBACK item (not marked SKIPPED) added while N >= 1 non-callback
\* items are in the runner's list is started before every one of those items:
\* none of them has been started while the callback item has not.
C9_CallbackStartedFirst ==
    \A c \in Items : \A d \in queues[c].behind :
        (/\ ~NonCallback(c)
         /\ queues[c].status # STATUS_SKIPPED
         /\ Started(d)) => Started(c)

C9_Witness ==
    \E c \in Items : \E d \in queues[c].behind :
        /\ ~NonCallback(c) /\ d < c
        /\ Started(d) /\ Started(c)
        /\ queues[d].status = STATUS_PROCESSING

\* C10: for two non-callback items A added before B, neither skipped,
\* B is never started while A has not been started.
C10_SubmissionOrder ==
    \A a \in Items : \A b \in Items :
        (/\ a < b /\ NonCallback(a) /\ NonCallback(b)
         /\ queues[a].status # STATUS_SKIPPED
         /\ queues[b].status # STATUS_SKIPPED
         /\ Started(b)) => Started(a)

C10_Witness ==
    \E a \in Items : \E b \in Items :
        /\ a < b /\ NonCallback(a) /\ NonCallback(b)
        /\ Started(a) /\ Started(b)
        /\ queues[a].status = STATUS_PROCESSING
        /\ queues[b].status = STATUS_PROCESSING

C3_RetryCeiling ==
    \A i \in Items :
        queues[i].retry =>
            /\ queues[i].attempts <= Retry + 1
            /\ (queues[i].status = STATUS_ERROR /\ queues[i].result = SiapRetryError)
                  => queues[i].attempts = Retry + 1
            /\ (queues[i].retryCount = Retry + 1 /\ queues[i].result # HookError)
                  => queues[i].status = STATUS_ERROR

C3_Witness ==
    \E i \in Items :
        /\ queues[i].retry /\ queues[i].status = STATUS_ERROR
        /\ queues[i].result = SiapRetryError /\ queues[i].attempts = Retry + 1

\* C4: whenever an item is DONE or ERROR its retryCount equals the number of
\* processQueue invocations on it after the first one.
C4_RetryCountIsRetries ==
    \A i \in Items :
        queues[i].status \in {STATUS_DONE, STATUS_ERROR}
            => queues[i].retryCount + 1 = queues[i].attempts

\* C5: an item with retry = true whose processQueue failed k >= 1 times and
\* then succeeded is DONE with retryCount = k <= Retry, k + 1 queue-start
\* events, one queue-done event and no queue-error event.
C5_RetryThenDone ==
    \A i \in Items :
        (queues[i].retry /\ queues[i].status = STATUS_DONE /\ queues[i].attempts >= 2)
            => /\ queues[i].retryCount = queues[i].attempts - 1
               /\ queues[i].retryCount <= Retry
               /\ queues[i].evStart = queues[i].retryCount + 1
               /\ queues[i].evDone = 1
               /\ queues[i].evError = 0

C5_Witness ==
    \E i \in Items :
        /\ queues[i].retry /\ queues[i].status = STATUS_DONE
        /\ queues[i].retryCount = 2 /\ queues[i].evStart = 3

\* C6: at any moment at which a polling loop can run, every PROCESSING item
\* with data.timeout = T > 0 whose elapsed time exceeds T is set to TIMED_OUT
\* by that run of the loop.
C6_EveryOverdueItemTimesOut ==
    \A i \in Items :
        (/\ loops > 0 /\ scheduled = 0
         /\ queues[i].status = STATUS_PROCESSING
         /\ queues[i].inflight = "processQueue"
         /\ queues[i].hasTimeout /\ queues[i].timeout > 0
         /\ queues[i].over)
        => \A r \in BOOLEAN : f(State, r).queues[i].status = STATUS_TIMED_OUT

\* C7: once an item is TIMED_OUT, no later step emits an event for it, calls
\* resolve or reject, makes it `last`, changes its result or status, or
\* invokes processQueue for it again.
C7_TimedOutIsAbandoned ==
    [][\A i \in Items :
         queues[i].status = STATUS_TIMED_OUT
            => /\ queues'[i].status = STATUS_TIMED_OUT
               /\ queues'[i].result = queues[i].result
               /\ queues'[i].attempts = queues[i].attempts
               /\ queues'[i].evStart = queues[i].evStart
               /\ queues'[i].evDone = queues[i].evDone
               /\ queues'[i].evError = queues[i].evError
               /\ queues'[i].nResolve = queues[i].nResolve
               /\ queues'[i].nReject = queues[i].nReject
               /\ (last' = i => last = i)]_vars

\* C8: an item's status only moves NEW -> PROCESSING -> {DONE, ERROR,
\* TIMED_OUT, SKIPPED} or NEW -> SKIPPED, and a terminal status never changes.
C8_StatusMovesForward ==
    [][\A i \in Items :
         \/ queues'[i].status = queues[i].status
         \/ /\ queues[i].status = STATUS_NEW
            /\ queues'[i].status \in {STATUS_PROCESSING, STATUS_SKIPPED}
         \/ /\ queues[i].status = STATUS_PROCESSING
            /\ finished(queues'[i])]_vars

\* C13: whenever a non-callback item becomes finished (DONE, ERROR, TIMED_OUT
\* or SKIPPED) it is `last` from then on, and `last` is never a CALLBACK item.
C13_LastIsMostRecentFinished ==
    [][/\ \A i \in Items :
            (NonCallback(i) /\ ~finished(queues[i]) /\ finished(queues'[i]))
                => last' = i
       /\ (last' # 0 => queues'[last'].type # QUEUE_CALLBACK)]_vars

\* C14: however many times setConsumer is called, one polling loop is installed.
C14_OneLoop == loops <= 1

\* C15 (as claimed): the snapshot of saveQueue() is exactly the non-callback
\* items that were never passed to start().
C15_SnapshotIsNeverStarted ==
    {saveQueue(State)[n] : n \in 1..Len(saveQueue(State))}
        = {i \in Items : NonCallback(i) /\ ~Started(i)}

\* C15 (amended): the snapshot of saveQueue() is exactly the non-callback items
\* that were never passed to start() and were not marked SKIPPED.
C15_SnapshotIsNewItems ==
    {saveQueue(State)[n] : n \in 1..Len(saveQueue(State))}
        = {i \in Items : /\ NonCallback(i) /\ ~Started(i)
                          /\ queues[i].status # STATUS_SKIPPED}

C15_Witness ==
    \E i \in Items : \E j \in Items :
        /\ saveQueue(State) = <<i>>
        /\ NonCallback(j) /\ ~Started(j) /\ queues[j].status = STATUS_SKIPPED

\* C19: on a poll tick that declares no timeout while the runner's list is not
\* empty, the loop calls Queue.next(): with a ready consumer the head of the
\* list is handed to the handler, also while some item is PROCESSING.
C19_TickAdvances ==
    (loops > 0 /\ scheduled = 0 /\ pending # <<>>)
        => LET s == f(State, TRUE)
           IN (s.queues = queues)
                 => (s.scheduled = Head(pending) /\ s.pending = Tail(pending))

\* C11: two distinct items added without a caller-supplied id have different
\* ids, every added item has an id, and an id the caller supplied is kept.
C11_IdsDistinctAndKept ==
    /\ \A i \in Items : \A j \in Items :
          (i # j /\ ~queues[i].ownId /\ ~queues[j].ownId)
              => queues[i].id # queues[j].id
    /\ \A i \in Items :
          /\ queues[i].id # NoId
          /\ queues[i].ownId => queues[i].id \in {k.id : k \in IdKinds}

\* C12: hasPendingQueue(candidate) is true exactly when a dispatcher exists and
\* some history item has the candidate's type and info and status NEW or
\* PROCESSING; it is false while no dispatcher has been created.
C12_PendingIffLiveTwin ==
    \A cand \in Candidates :
        hasPendingQueue(cand)
            <=> /\ dequeue
                /\ \E i \in Items :
                      /\ queues[i].type = cand.type
                      /\ queues[i].info = cand.info
                      /\ ~finished(queues[i])

C12_Witness ==
    \E c1 \in Candidates : \E c2 \in Candidates :
        /\ c1.type = c2.type /\ c1.info # c2.info
        /\ hasPendingQueue(c1) /\ ~hasPendingQueue(c2)
        /\ \E i \in Items :
              /\ queues[i].type = c2.type /\ queues[i].info = c2.info
              /\ queues[i].status = STATUS_DONE

\* C20: while the ontimeout hook of a TIMED_OUT item is pending, no step hands
\* an item of the runner's list to the handler; the step in which the hook
\* settles calls Queue.next() (with a ready consumer the head is handed over).
C20_NoAdvanceWhileHookPending ==
    [][\A i \in Items :
         /\ (queues[i].hooks > 0 /\ queues'[i].hooks >= queues[i].hooks)
               => ~(scheduled = 0 /\ scheduled' # 0)
         /\ (queues'[i].hooks < queues[i].hooks /\ pending # <<>> /\ ready')
               => (scheduled' = Head(pending) /\ pending' = Tail(pending))]_vars

\* C18: after a synchronous fault in the dispatch of an item (the item is left
\* PROCESSING with no promise behind it), every item waiting in the runner's
\* list is eventually handed to the handler, whatever the faulting item's
\* timeout.
C18_FaultNeverStalls ==
    \A j \in 1..MaxItems :
        (/\ \E i \in Items : /\ queues[i].status = STATUS_PROCESSING
                               /\ queues[i].inflight = "none"
         /\ \E n \in 1..Len(pending) : pending[n] = j)
            ~> (\A n \in 1..Len(pending) : pending[n] # j)

\* The template with every %i% replaced, in one pass, by the i-th value.
RECURSIVE Filled(_, _)
Filled(tpl, vals) ==
    IF tpl = <<>> THEN <<>>
    ELSE IF \E i \in 0..(Len(vals) - 1) :
               Len(tpl) >= 3 /\ SubSeq(tpl, 1, 3) = Placeholder(i)
         THEN LET i == CHOOSE i \in 0..(Len(vals) - 1) : SubSeq(tpl, 1, 3) = Placeholder(i)
              IN vals[i + 1] \o Filled(SubSeq(tpl, 4, Len(tpl)), vals)
         ELSE <<Head(tpl)>> \o Filled(Tail(tpl), vals)

\* C16: getDataValue of a key present in data is data[key]; otherwise
\* CONCAT:sep|r1|r2 is the resolved values of the trimmed r1, r2 joined by sep and
\* FORMAT:tpl|r1|r2 is tpl with every %i% replaced by the resolved value of ri.
C16_ConcatAndFormat ==
    (resolver.made /\ resolver.call = "getDataValue") =>
        LET resolved == [n \in 1..Len(resolver.refs) |->
                            getDataValue(Data, trim(resolver.refs[n]))]
        IN IF resolver.key \in DOMAIN Data
           THEN resolver.value = Data[resolver.key]
           ELSE IF resolver.vtype = <<"C", "O", "N", "C", "A", "T">>
           THEN resolver.value = join(resolved, resolver.first)
           ELSE resolver.value
                  = Filled(resolver.first,
                           [n \in 1..Len(resolved) |-> AsReplacement(resolved[n])])

\* C17: getMappedData(name) without maps is the Field Resolver's value of name
\* taken as a data key; with maps it is the value of the payload key that the
\* dotted name is mapped to.
C17_MappedData ==
    (resolver.made /\ resolver.call = "getMappedData") =>
        IF ~resolver.hasMaps
        THEN resolver.value = getDataValue(Data, resolver.name)
        ELSE /\ resolver.name = <<"r", ".", "n">>
                  => resolver.value = getDataValue(Data, <<"a">>)
             /\ resolver.name = <<"r", ".", "m">>
                  => resolver.value = getDataValue(Data, <<"k", ":", "1">>)

\* C21: whenever an item is started while another item is PROCESSING, the
\* started item is not of type CALLBACK and consumer.canHandleNextQueue has
\* returned true for it.
C21_SecondStartIsApproved ==
    [][\A i \in Items :
         (/\ queues'[i].evStart > queues[i].evStart
          /\ \E j \in Items : j # i /\ queues[j].status = STATUS_PROCESSING)
            => (NonCallback(i) /\ queues[i].approved)]_vars

\* The step leaves item i as it was: status, result, calls and events.
Untouched(i) ==
    /\ queues'[i].status = queues[i].status
    /\ queues'[i].result = queues[i].result
    /\ queues'[i].inflight = queues[i].inflight
    /\ queues'[i].attempts = queues[i].attempts
    /\ queues'[i].evStart = queues[i].evStart
    /\ queues'[i].evDone = queues[i].evDone
    /\ queues'[i].evError = queues[i].evError
    /\ queues'[i].nResolve = queues[i].nResolve
    /\ queues'[i].nReject = queues[i].nReject

\* C22: an item that is SKIPPED when the runner hands it to the handler is
\* bypassed: the handler leaves every item as it is (no start(), no
\* processQueue call, no event, status and result unchanged) and calls
\* Queue.next(), which with a ready consumer hands over the head of the list;
\* and no step ever changes a SKIPPED item.
C22_SkippedIsBypassed ==
    [][/\ (scheduled # 0 /\ queues[scheduled].status = STATUS_SKIPPED)
            => /\ \A i \in Items : Untouched(i)
               /\ IF pending # <<>> /\ ready'
                  THEN scheduled' = Head(pending) /\ pending' = Tail(pending)
                  ELSE scheduled' = 0 /\ pending' = pending
       /\ \A i \in Items :
            queues[i].status = STATUS_SKIPPED => Untouched(i)]_vars

C22_Witness ==
    \E i \in Items : \E j \in Items :
        /\ i < j /\ NonCallback(i) /\ NonCallback(j)
        /\ queues[i].status = STATUS_SKIPPED /\ queues[i].evStart = 0
        /\ queues[i].result = Undefined
        /\ scheduled = 0
        /\ queues[j].status = STATUS_PROCESSING /\ queues[j].attempts = 1

\* C23: whenever a processQueue call of an item is pending, its rejection
\* with an error that is not a SiapRetryError, or with any error when the
\* item's retry flag is not true, ends the item without another attempt: status
\* ERROR with that error as result, one more queue-error event (the only one),
\* one reject call when continuations are attached, `last` set to the item
\* unless it is a CALLBACK item, and Queue.next() called; an item whose retry
\* flag is not true has had exactly one attempt.
C23_NonRetryableFailsAtOnce ==
    \A i \in Items : \A err \in {SiapRetryError, OtherError} : \A c \in Answers :
        (/\ scheduled = 0
         /\ queues[i].inflight = "processQueue"
         /\ (err # SiapRetryError \/ ~queues[i].retry))
        => LET s == retry([State EXCEPT !.queues[i].inflight = "none"], i, err, c)
               q == s.queues[i]
           IN /\ q.status = STATUS_ERROR /\ q.result = err
              /\ q.attempts = queues[i].attempts
              /\ (~queues[i].retry => q.attempts = 1)
              /\ q.evStart = queues[i].evStart
              /\ q.evError = 1 /\ q.evDone = 0 /\ q.inflight = "none"
              /\ q.nReject = (IF queues[i].cont THEN 1 ELSE 0) /\ q.nResolve = 0
              /\ s.last = (IF NonCallback(i) THEN i ELSE last)
              /\ IF pending = <<>> THEN s.scheduled = 0 /\ s.pending = <<>>
                 ELSE IF c.ready
                 THEN s.scheduled = Head(pending) /\ s.pending = Tail(pending)
                 ELSE s.scheduled = 0 /\ s.pending = pending

C23_Witness ==
    \E i \in Items : \E j \in Items :
        /\ i # j
        /\ queues[i].retry /\ queues[i].status = STATUS_ERROR
        /\ queues[i].result = OtherError /\ queues[i].attempts = 1
        /\ queues[i].evError = 1 /\ queues[i].nReject = 1 /\ last = i
        /\ scheduled = j /\ queues[j].status = STATUS_NEW

\* C24: for an item with continuations, at most one of resolve and reject is
\* ever called and at most once; resolve is called, with the result, in exactly
\* the steps in which the item becomes DONE, and reject, with the error, in
\* exactly the steps in which it becomes ERROR (so neither on a retried failure
\* nor when the item becomes TIMED_OUT or SKIPPED).
C24_OneContinuationOnce ==
    [][\A i \in Items :
         queues[i].cont =>
            /\ queues'[i].nResolve + queues'[i].nReject <= 1
            /\ queues'[i].nResolve >= queues[i].nResolve
            /\ queues'[i].nReject >= queues[i].nReject
            /\ (queues'[i].nResolve > queues[i].nResolve)
                  <=> (queues[i].status # STATUS_DONE /\ queues'[i].status = STATUS_DONE)
            /\ (queues'[i].nResolve > queues[i].nResolve) => queues'[i].result = Result
            /\ (queues'[i].nReject > queues[i].nReject)
                  <=> (queues[i].status # STATUS_ERROR /\ queues'[i].status = STATUS_ERROR)
            /\ (queues'[i].nReject > queues[i].nReject)
                  => queues'[i].result \in {SiapRetryError, OtherError, HookError}]_vars

C24_Witness ==
    \E i \in Items :
        /\ queues[i].cont /\ queues[i].status = STATUS_DONE
        /\ queues[i].attempts = 2 /\ queues[i].retryCount = 1
        /\ queues[i].nResolve = 1 /\ queues[i].nReject = 0

\* The PROCESSING items, the one started earliest (by its last start()) and
\* the one submitted earliest.
InProcess == {i \in Items : queues[i].status = STATUS_PROCESSING}
StartRank(i) == CHOOSE n \in 1..Len(timeline) : timeline[n] = i
EarliestStarted ==
    CHOOSE i \in InProcess : \A j \in InProcess : StartRank(i) <= StartRank(j)
FirstInHistory == CHOOSE i \in InProcess : \A j \in InProcess : i <= j

\* A poll tick examines item e and no other: it sets e TIMED_OUT exactly when
\* e's effective timeout is > 0 and exceeded, and changes no other item's status.
Examines(e) ==
    \A r \in BOOLEAN :
        LET s == f(State, r)
        IN /\ s.queues[e].status
                 = (IF EffectiveTimeout(queues[e]) > 0 /\ queues[e].over
                    THEN STATUS_TIMED_OUT ELSE STATUS_PROCESSING)
           /\ \A j \in Items \ {e} : s.queues[j].status = queues[j].status

\* C25 (as claimed): the single item a poll tick examines for timeout is the
\* PROCESSING item with the earliest start time.
C25_ExaminesEarliestStarted ==
    (loops > 0 /\ scheduled = 0 /\ InProcess # {}) => Examines(EarliestStarted)

\* C25 (amended): the single item a poll tick examines for timeout is the
\* PROCESSING item that comes first in the history, the one submitted earliest.
C25_ExaminesFirstInHistory ==
    (loops > 0 /\ scheduled = 0 /\ InProcess # {}) => Examines(FirstInHistory)

C25_Witness ==
    /\ loops > 0 /\ scheduled = 0
    /\ Cardinality(InProcess) = 2
    /\ FirstInHistory # EarliestStarted
    /\ queues[FirstInHistory].over /\ queues[EarliestStarted].over

\* C26: a step sets an item TIMED_OUT only if the item is PROCESSING, its
\* effective timeout (data.timeout when defined, else the default) is > 0 and
\* the time elapsed since its last start() exceeds it; an item whose effective
\* timeout is <= 0 is never TIMED_OUT.
C26_TimedOutOnlyWhenOverdue ==
    [][\A i \in Items :
         /\ (queues[i].status # STATUS_TIMED_OUT /\ queues'[i].status = STATUS_TIMED_OUT)
               => /\ queues[i].status = STATUS_PROCESSING
                  /\ EffectiveTimeout(queues[i]) > 0
                  /\ queues[i].over
         /\ EffectiveTimeout(queues[i]) <= 0 => queues'[i].status # STATUS_TIMED_OUT]_vars

C26_Witness ==
    \E i \in Items : \E j \in Items :
        /\ loops > 0 /\ scheduled = 0
        /\ queues[i].status = STATUS_TIMED_OUT /\ EffectiveTimeout(queues[i]) = Timeout
        /\ queues[j].status = STATUS_PROCESSING /\ queues[j].over
        /\ EffectiveTimeout(queues[j]) <= 0
        /\ f(State, TRUE).queues = queues

\* C27: with a consumer attached, poll ticks scheduled fairly and finding the
\* consumer ready, every added item whose effective timeout is > 0 eventually
\* has a terminal status, whether or not any promise settles.
C27_TimedItemsTerminate ==
    \A j \in 1..MaxItems :
        (consumer /\ j \in Items /\ EffectiveTimeout(queues[j]) > 0)
            ~> (j \in Items /\ finished(queues[j]))

\* C28 (as claimed): the step in which the dispatch of an item throws after
\* start() gives the item no ERROR status, no result, no queue-error event and
\* no reject call; from then on the item stays PROCESSING, with no result, event
\* or continuation call, until the poll loop sets it TIMED_OUT, which it never
\* does when the effective timeout is <= 0.
C28_FaultedStaysProcessing ==
    [][\A i \in Items :
         /\ (~queues[i].faulted /\ queues'[i].faulted)
               => /\ queues'[i].status = STATUS_PROCESSING
                  /\ queues'[i].result = queues[i].result
                  /\ queues'[i].evError = queues[i].evError
                  /\ queues'[i].nReject = queues[i].nReject
         /\ (queues[i].faulted /\ queues[i].status = STATUS_PROCESSING)
               => /\ queues'[i].status \in {STATUS_PROCESSING, STATUS_TIMED_OUT}
                  /\ queues'[i].status = STATUS_TIMED_OUT
                        => (EffectiveTimeout(queues[i]) > 0 /\ queues[i].over)
                  /\ queues'[i].result = queues[i].result
                  /\ queues'[i].evError = queues[i].evError
                  /\ queues'[i].evDone = queues[i].evDone
                  /\ queues'[i].nReject = queues[i].nReject
                  /\ queues'[i].nResolve = queues[i].nResolve]_vars

\* C28 (amended): the same, the second part for an item whose dispatch threw
\* before processQueue returned its promise (in a queue-start listener or in
\* processQueue itself).
C28_FaultedBeforePromiseStaysProcessing ==
    [][\A i \in Items :
         /\ (~queues[i].faulted /\ queues'[i].faulted)
               => /\ queues'[i].status = STATUS_PROCESSING
                  /\ queues'[i].result = queues[i].result
                  /\ queues'[i].evError = queues[i].evError
                  /\ queues'[i].nReject = queues[i].nReject
         /\ (/\ queues[i].faulted /\ queues[i].inflight = "none"
             /\ queues[i].status = STATUS_PROCESSING)
               => /\ queues'[i].status \in {STATUS_PROCESSING, STATUS_TIMED_OUT}
                  /\ queues'[i].status = STATUS_TIMED_OUT
                        => (EffectiveTimeout(queues[i]) > 0 /\ queues[i].over)
                  /\ queues'[i].result = queues[i].result
                  /\ queues'[i].evError = queues[i].evError
                  /\ queues'[i].evDone = queues[i].evDone
                  /\ queues'[i].nReject = queues[i].nReject
                  /\ queues'[i].nResolve = queues[i].nResolve]_vars

C28_Witness ==
    \E i \in Items : \E j \in Items :
        /\ queues[i].faulted /\ queues[i].inflight = "none" /\ queues[i].attempts = 1
        /\ queues[i].status = STATUS_TIMED_OUT
        /\ queues[i].result = Undefined /\ queues[i].evError = 0
        /\ queues[j].faulted /\ queues[j].inflight = "none"
        /\ queues[j].status = STATUS_PROCESSING /\ queues[j].over
        /\ EffectiveTimeout(queues[j]) <= 0

\* C29: whenever the onretry hook of an item is pending, its rejection ends
\* the item without another attempt: status ERROR with the hook's rejection
\* value as result, one queue-error event, one reject call when continuations
\* are attached, and Queue.next() called.
C29_HookRejectionFails ==
    \A i \in Items : \A c \in Answers :
        (scheduled = 0 /\ queues[i].inflight = "onretry")
        => LET s == onretryCatch(State, i, HookError, c)
               q == s.queues[i]
           IN /\ q.status = STATUS_ERROR /\ q.result = HookError
              /\ q.attempts = queues[i].attempts
              /\ q.evStart = queues[i].evStart
              /\ q.retryCount = queues[i].retryCount
              /\ q.evError = 1 /\ q.evDone = 0 /\ q.inflight = "none"
              /\ q.nReject = (IF queues[i].cont THEN 1 ELSE 0) /\ q.nResolve = 0
              /\ IF pending = <<>> THEN s.scheduled = 0 /\ s.pending = <<>>
                 ELSE IF c.ready
                 THEN s.scheduled = Head(pending) /\ s.pending = Tail(pending)
                 ELSE s.scheduled = 0 /\ s.pending = pending

C29_Witness ==
    \E i \in Items : \E j \in Items :
        /\ i # j
        /\ queues[i].onretry /\ queues[i].status = STATUS_ERROR
        /\ queues[i].result = HookError
        /\ queues[i].attempts = 2 /\ queues[i].retryCount = 2
        /\ queues[i].evError = 1 /\ queues[i].nReject = 1
        /\ scheduled = j /\ queues[j].status = STATUS_NEW

\* C30: when a CALLBACK item is started for the first time, every CALLBACK
\* item submitted after it (all of them were in the runner's list together
\* with it) has already left the list and been started, unless it was marked
\* SKIPPED: callbacks that wait together are started in reverse submission order.
C30_CallbacksLastInFirstOut ==
    [][\A a \in Items :
         (~NonCallback(a) /\ queues[a].evStart = 0 /\ queues'[a].evStart = 1)
            => \A b \in Items :
                  (b > a /\ ~NonCallback(b))
                     => /\ \A n \in 1..Len(pending) : pending[n] # b
                        /\ Started(b) \/ queues[b].status = STATUS_SKIPPED]_vars

C30_Witness ==
    \E a \in Items : \E b \in Items :
        /\ a < b /\ ~NonCallback(a) /\ ~NonCallback(b)
        /\ Started(a) /\ Started(b)
        /\ StartRank(b) < StartRank(a)

====
